---------------------------- MODULE Spec2Model ----------------------------
(***************************************************************************)
(* A model of StaticSymbolResolver                                         *)
(* (modules/@angular/compiler/src/aot/static_symbol_resolver.ts).          *)
(*                                                                         *)
(* The resolver is single-threaded and synchronous: every public call      *)
(* (resolveSymbol, getSymbolsOf) runs to its end, or to a raised error,    *)
(* before the next one starts.  Each public call is one action.  The       *)
(* methods are operators over a record r holding the resolver's fields     *)
(* and a log of its calls to the collaborators; r.thrown carries an        *)
(* exception in flight, and every operator passes such a record on         *)
(* unchanged, which is how a JavaScript exception unwinds.                 *)
(***************************************************************************)
EXTENDS Integers, Sequences, FiniteSets, TLC

VARIABLES
    metadataCache,      \* Map<string, document>: file path -> selected document
    resolvedSymbols,    \* Map<StaticSymbol, ResolvedStaticSymbol>, in insertion order
    resolvedFilePaths,  \* Set<string>: files whose walker was entered
    recorded,           \* calls made to errorRecorder, in order
    queried,            \* calls made to host.getMetadataFor, in order
    entered,            \* files whose walker body was entered, in order
    finished,           \* files whose walker reached its end, in order
    written,            \* the resolved symbols passed to resolvedSymbols.set, in order
    host,               \* host.getMetadataFor: file path -> candidate documents
    hasRecorder,        \* whether an errorRecorder was passed to the constructor
    last,               \* the last public call and what it returned or raised
    tnode,              \* transformer harness: the raw metadata node
    tout                \* transformer harness: the transformed node

vars == <<metadataCache, resolvedSymbols, resolvedFilePaths, recorded, queried,
          entered, finished, written, host, hasRecorder, last, tnode, tout>>

-----------------------------------------------------------------------------
(* Bounds *)

\* Depth of nested walker calls at which the engine raises its RangeError.
MaxStack == 5

\* Nesting depth of the raw nodes the transformer harness draws.
MaxNest == 3

SUPPORTED_SCHEMA_VERSION == 3

-----------------------------------------------------------------------------
(* JavaScript values *)

Undefined == [t |-> "undefined"]
Null == [t |-> "null"]
Num(n) == [t |-> "number", v |-> n]
Str(s) == [t |-> "string", v |-> s]
Arr(items) == [t |-> "array", items |-> items]
\* A string map (object literal): its keys in insertion order and their values.
Obj(keys, vals) == [t |-> "map", keys |-> keys, vals |-> vals]

\* value ? ... : ... , !value, value && ... : JavaScript truthiness.
Truthy(value) ==
    CASE value.t = "undefined" -> FALSE
      [] value.t = "null" -> FALSE
      [] value.t = "number" -> value.v # 0
      [] value.t = "string" -> value.v # ""
      [] OTHER -> TRUE

Range(seq) == {seq[i] : i \in 1..Len(seq)}

IndexOf(seq, e) ==
    IF e \in Range(seq) THEN CHOOSE i \in 1..Len(seq) :
                                  seq[i] = e /\ \A j \in 1..(i - 1) : seq[j] # e
    ELSE 0

\* value[key]
Get(value, key) ==
    CASE value.t = "map" ->
            IF key \in Range(value.keys) THEN value.vals[IndexOf(value.keys, key)]
            ELSE Undefined
      [] value.t = "symbol" ->
            CASE key = "filePath" -> Str(value.filePath)
              [] key = "name" -> Str(value.name)
              [] OTHER -> Undefined
      [] OTHER -> Undefined

-----------------------------------------------------------------------------
(* Files, names and the collaborators *)

Files == {"A", "B", "C"}
Names == {"x", "y", "K"}
MemberPaths == {<<>>, <<"foo">>, <<"foo", "bar">>}

Next1(f) == CASE f = "A" -> "B" [] f = "B" -> "C" [] OTHER -> "A"
Prev1(f) == CASE f = "A" -> "C" [] f = "B" -> "A" [] OTHER -> "B"

\* StaticSymbolCache.get interns: equal triples are the same handle.
getStaticSymbol(declarationFile, name, members) ==
    [t |-> "symbol", filePath |-> declarationFile, name |-> name, members |-> members]

IsStaticSymbol(value) == value.t = "symbol"

ResolvedStaticSymbol(symbol, metadata) ==
    [t |-> "resolved", symbol |-> symbol, metadata |-> metadata]

\* host.moduleNameToFileName: "./next", "./prev" and "./self" name files,
\* "./none" is answered with null and "./bad" makes the host throw an Error.
moduleNameToFileName(module, containingFile) ==
    CASE module = "./next" -> [threw |-> FALSE, val |-> Str(Next1(containingFile))]
      [] module = "./prev" -> [threw |-> FALSE, val |-> Str(Prev1(containingFile))]
      [] module = "./self" -> [threw |-> FALSE, val |-> Str(containingFile)]
      [] module = "./none" -> [threw |-> FALSE, val |-> Null]
      [] OTHER -> [threw |-> TRUE,
                   val |-> [t |-> "Error", message |-> "Cannot find module " \o module]]

\* summaryResolver: file C is a precompiled library with summaries.
resolveSummary(staticSymbol) ==
    IF staticSymbol = getStaticSymbol("C", "x", <<>>)
    THEN [t |-> "summary", metadata |-> Num(9)]
    ELSE Null

summarySymbolsOf(filePath) ==
    IF filePath = "C"
    THEN <<getStaticSymbol("C", "x", <<>>), getStaticSymbol("C", "y", <<>>)>>
    ELSE <<>>

-----------------------------------------------------------------------------
(* The resolver record and its error paths *)

NoError == [t |-> "none"]

Threw(r) == r.thrown # NoError

\* throw error
Throw(r, error) == [r EXCEPT !.thrown = error]

\* new e, for a caught value e: only a constructor can be instantiated; for
\* anything else (an Error instance is what a host throws) the engine raises
\* TypeError: e is not a constructor.
newExpr(e) ==
    IF e.t = "constructor"
    THEN [threw |-> FALSE, val |-> [t |-> "Error", message |-> e.name]]
    ELSE [threw |-> TRUE,
          val |-> [t |-> "TypeError", message |-> "e is not a constructor"]]

reportError(r, error, context, path) ==
    IF hasRecorder
    THEN [r EXCEPT !.recorded =
              Append(@, [error |-> error,
                         fileName |-> IF Truthy(context) /\ Truthy(Get(context, "filePath"))
                                      THEN Get(context, "filePath")
                                      ELSE path])]
    ELSE Throw(r, error)

\* Returns [r, val]: val is the file path, null, or undefined after the catch.
resolveModule(r, module, containingFile) ==
    LET h == moduleNameToFileName(module, containingFile) IN
    IF ~h.threw THEN [r |-> r, val |-> h.val]
    ELSE LET e == newExpr(h.val) IN
         IF e.threw THEN [r |-> Throw(r, e.val), val |-> Undefined]
         ELSE [r |-> reportError(r, e.val, Null, Str(containingFile)), val |-> Undefined]

-----------------------------------------------------------------------------
(* Metadata store *)

RECURSIVE maxVersionOf(_, _, _, _)
\* moduleMetadatas.forEach: the first document of the highest version above -1.
maxVersionOf(moduleMetadatas, i, maxVersion, moduleMetadata) ==
    IF i > Len(moduleMetadatas) THEN moduleMetadata
    ELSE IF moduleMetadatas[i].version > maxVersion
         THEN maxVersionOf(moduleMetadatas, i + 1, moduleMetadatas[i].version,
                           moduleMetadatas[i])
         ELSE maxVersionOf(moduleMetadatas, i + 1, maxVersion, moduleMetadata)

emptyModuleMetadata(module) ==
    [t |-> "module", version |-> SUPPORTED_SCHEMA_VERSION, module |-> module,
     metadata |-> Obj(<<>>, <<>>), exports |-> Undefined]

versionError(module, version) ==
    [t |-> "Error",
     message |-> IF version = 2 THEN "Unsupported metadata version"
                 ELSE "Metadata version mismatch",
     module |-> module, found |-> version]

\* Mutant: the loaded document is returned and not kept.
cacheModuleMetadata_Forget(r, module, moduleMetadata, checked) ==
    IF Threw(checked) THEN [r |-> checked, val |-> Undefined]
    ELSE [r |-> checked, val |-> moduleMetadata]

\* The rest of getModuleMetadata once the document is selected: the version
\* check, then this.metadataCache.set.  Returns [r, val].
cacheModuleMetadata(r, module, moduleMetadata, checked) ==
    IF Threw(checked) THEN [r |-> checked, val |-> Undefined]
    ELSE [r |-> [checked EXCEPT !.metadataCache[module] = moduleMetadata],
          val |-> moduleMetadata]

\* if (moduleMetadata['version'] != SUPPORTED_SCHEMA_VERSION) reportError(...)
checkVersion(r, module, moduleMetadata) ==
    IF moduleMetadata.version # SUPPORTED_SCHEMA_VERSION
    THEN reportError(r, versionError(module, moduleMetadata.version), Null, Undefined)
    ELSE r

\* The document selected among the host's candidates, or the empty one.
selectModuleMetadata(module, found) ==
    IF found = Undefined THEN emptyModuleMetadata(module) ELSE found

loadModuleMetadata(r, module, moduleMetadata) ==
    cacheModuleMetadata(r, module, moduleMetadata, checkVersion(r, module, moduleMetadata))

\* Returns [r, val].
getModuleMetadata(r, module) ==
    IF r.metadataCache[module] # Undefined
    THEN [r |-> r, val |-> r.metadataCache[module]]
    ELSE loadModuleMetadata([r EXCEPT !.queried = Append(@, module)], module,
             selectModuleMetadata(module, maxVersionOf(host[module], 1, -1, Undefined)))

-----------------------------------------------------------------------------
(* Reference transformer *)

errorMarker(module, filePath) ==
    Obj(<<"__symbolic", "message">>,
        <<Str("error"),
          Str("Could not resolve " \o module \o " relative to " \o filePath \o ".")>>)

lexicalReference(name) == Obj(<<"__symbolic", "name">>, <<Str("reference"), name>>)

\* Mutant: the parameters of a finished function stay in scope.
truncateParams_Keep(functionParams, oldLen) == functionParams

\* functionParams.length = oldLen
truncateParams(functionParams, oldLen) == SubSeq(functionParams, 1, oldLen)

\* functionParams.push(...(map['parameters'] || []))
pushParams(functionParams, map) ==
    IF Truthy(Get(map, "parameters")) /\ Get(map, "parameters").t = "array"
    THEN functionParams \o Get(map, "parameters").items
    ELSE functionParams

\* const isFunctionParam = functionParams.indexOf(name) >= 0
isFunctionParam(functionParams, name) == IndexOf(functionParams, name) > 0

RECURSIVE visitValue(_, _, _, _)
RECURSIVE visitAll(_, _, _, _, _, _)

\* The visit of values[i] done (v), on to values[i + 1].
visitNext(sourceSymbol, values, i, acc, v) ==
    visitAll(v.r, sourceSymbol, values, i + 1, Append(acc, v.val), v.fp)

\* The elements of an array, or the values of a map, visited in order with the
\* one shared functionParams array.  Returns [r, val: the visited values, fp].
visitAll(r, sourceSymbol, values, i, acc, functionParams) ==
    IF i > Len(values) \/ Threw(r) THEN [r |-> r, val |-> acc, fp |-> functionParams]
    ELSE visitNext(sourceSymbol, values, i, acc,
                   visitValue(r, sourceSymbol, values[i], functionParams))

arrayOf(v) == [r |-> v.r, val |-> Arr(v.val), fp |-> v.fp]

\* ValueTransformer.visitArray: arr.map(value => visitValue(value, this, context))
visitArray(r, sourceSymbol, arr, functionParams) ==
    arrayOf(visitAll(r, sourceSymbol, arr.items, 1, <<>>, functionParams))

mapOf(keys, v) == [r |-> v.r, val |-> Obj(keys, v.val), fp |-> v.fp]

\* ValueTransformer.visitStringMap: every key's value visited, keys kept.
superVisitStringMap(r, sourceSymbol, map, functionParams) ==
    mapOf(map.keys, visitAll(r, sourceSymbol, map.vals, 1, <<>>, functionParams))

\* A reference with a module: m is what resolveModule returned.
moduleReference(sourceSymbol, module, name, functionParams, m) ==
    IF Threw(m.r) THEN [r |-> m.r, val |-> Undefined, fp |-> functionParams]
    ELSE IF ~Truthy(m.val)
    THEN [r |-> m.r, val |-> errorMarker(module.v, sourceSymbol.filePath),
          fp |-> functionParams]
    ELSE [r |-> m.r, val |-> getStaticSymbol(m.val.v, name.v, <<>>),
          fp |-> functionParams]

\* A reference without module: a function parameter or a symbol of this file.
localReference(r, sourceSymbol, name, functionParams) ==
    IF ~isFunctionParam(functionParams, name)
    THEN [r |-> r, val |-> getStaticSymbol(sourceSymbol.filePath, name.v, <<>>),
          fp |-> functionParams]
    ELSE [r |-> r, val |-> lexicalReference(name), fp |-> functionParams]

\* ReferenceTransformer.visitStringMap, the 'reference' branch.
visitReference(r, sourceSymbol, map, functionParams) ==
    IF ~Truthy(Get(map, "name")) THEN [r |-> r, val |-> Null, fp |-> functionParams]
    ELSE IF Truthy(Get(map, "module"))
    THEN moduleReference(sourceSymbol, Get(map, "module"), Get(map, "name"),
                         functionParams,
                         resolveModule(r, Get(map, "module").v, sourceSymbol.filePath))
    ELSE localReference(r, sourceSymbol, Get(map, "name"), functionParams)

\* functionParams.length = oldLen; return result
leaveFunction(oldLen, result) ==
    [r |-> result.r, val |-> result.val, fp |-> truncateParams(result.fp, oldLen)]

\* ReferenceTransformer.visitStringMap, the 'function' branch.
visitFunction(r, sourceSymbol, map, functionParams) ==
    leaveFunction(Len(functionParams),
                  superVisitStringMap(r, sourceSymbol, map,
                                      pushParams(functionParams, map)))

visitStringMap(r, sourceSymbol, map, functionParams) ==
    IF Get(map, "__symbolic") = Str("function")
    THEN visitFunction(r, sourceSymbol, map, functionParams)
    ELSE IF Get(map, "__symbolic") = Str("reference")
    THEN visitReference(r, sourceSymbol, map, functionParams)
    ELSE superVisitStringMap(r, sourceSymbol, map, functionParams)

\* util.visitValue: dispatch on the shape of the value.
visitValue(r, sourceSymbol, value, functionParams) ==
    IF value.t = "array" THEN visitArray(r, sourceSymbol, value, functionParams)
    ELSE IF value.t = "map" THEN visitStringMap(r, sourceSymbol, value, functionParams)
    ELSE [r |-> r, val |-> value, fp |-> functionParams]

resolvedOf(sourceSymbol, v) ==
    [r |-> v.r, val |-> ResolvedStaticSymbol(sourceSymbol, v.val)]

\* Returns [r, val].
createResolvedSymbol(r, sourceSymbol, metadata) ==
    resolvedOf(sourceSymbol, visitValue(r, sourceSymbol, metadata, <<>>))

-----------------------------------------------------------------------------
(* The resolved-symbol map: a JavaScript Map keeps its keys in insertion order *)

mapHas(entries, key) == \E i \in 1..Len(entries) : entries[i].symbol = key

\* Map.get
mapGet(entries, key) ==
    IF mapHas(entries, key)
    THEN entries[CHOOSE i \in 1..Len(entries) : entries[i].symbol = key]
    ELSE Undefined

\* Mutant: a known key keeps its value.
mapSet_KeepFirst(entries, key, value) ==
    IF mapHas(entries, key) THEN entries ELSE Append(entries, value)

\* Map.set: a known key keeps its place and takes the new value.
mapSet(entries, key, value) ==
    IF mapHas(entries, key)
    THEN [i \in 1..Len(entries) |-> IF entries[i].symbol = key THEN value ELSE entries[i]]
    ELSE Append(entries, value)

\* Set.add on a set kept in insertion order.
setAdd(symbols, symbol) ==
    IF symbol \in Range(symbols) THEN symbols ELSE Append(symbols, symbol)

RECURSIVE setOf(_, _, _)
\* new Set(array)
setOf(array, i, symbols) ==
    IF i > Len(array) THEN symbols ELSE setOf(array, i + 1, setAdd(symbols, array[i]))

-----------------------------------------------------------------------------
(* Export walker *)

RangeError == [t |-> "RangeError", message |-> "Maximum call stack size exceeded"]

\* this.resolvedFilePaths.has(filePath)
alreadyResolved(r, filePath) == filePath \in r.resolvedFilePaths

\* Mutant: the file is not marked on entry to its walker.
markResolved_Skip(r, filePath) == r

\* this.resolvedFilePaths.add(filePath)
markResolved(r, filePath) ==
    [r EXCEPT !.resolvedFilePaths = @ \cup {filePath}]

RECURSIVE declaredSymbols(_, _, _, _, _)

\* resolvedSymbols.push(s), on to the next declared name.
declaredNext(filePath, metadata, i, list, s) ==
    declaredSymbols(s.r, filePath, metadata, i + 1, Append(list, s.val))

\* Object.keys(metadata['metadata']).forEach: one resolved symbol per declared
\* name, pushed on the local list.  Returns [r, val: the list].
declaredSymbols(r, filePath, metadata, i, list) ==
    IF i > Len(metadata.keys) \/ Threw(r) THEN [r |-> r, val |-> list]
    ELSE declaredNext(filePath, metadata, i, list,
             createResolvedSymbol(r, getStaticSymbol(filePath, metadata.keys[i], <<>>),
                                  Get(metadata, metadata.keys[i])))

\* The name a re-export entry is exported as.
exportedAs(exportSymbol) ==
    IF exportSymbol.t = "string" THEN exportSymbol.v ELSE Get(exportSymbol, "as").v

\* Mutant: the alias is given the exported name as the name of its target.
exportedName_AsAlias(exportSymbol) ==
    IF exportSymbol.t = "string" THEN exportSymbol.v ELSE Get(exportSymbol, "as").v

\* The name a re-export entry has in the module it comes from.
exportedName(exportSymbol) ==
    IF exportSymbol.t # "string" THEN Get(exportSymbol, "name").v ELSE exportSymbol.v

\* if (resolvedModule) resolvedSymbols.push(new ResolvedStaticSymbol(source, target))
pushAlias(filePath, exportSymbol, list, m) ==
    IF ~Threw(m.r) /\ Truthy(m.val)
    THEN Append(list,
             ResolvedStaticSymbol(
                 getStaticSymbol(filePath, exportedAs(exportSymbol), <<>>),
                 getStaticSymbol(m.val.v, exportedName(exportSymbol), <<>>)))
    ELSE list

RECURSIVE explicitExports(_, _, _, _, _)

explicitNext(filePath, moduleExport, j, list, m) ==
    explicitExports(m.r, filePath, moduleExport, j + 1,
                    pushAlias(filePath, moduleExport.export.items[j], list, m))

\* moduleExport.export.forEach: the module is resolved once per entry.
explicitExports(r, filePath, moduleExport, j, list) ==
    IF j > Len(moduleExport.export.items) \/ Threw(r) THEN [r |-> r, val |-> list]
    ELSE explicitNext(filePath, moduleExport, j, list,
                      resolveModule(r, moduleExport.from, filePath))

\* Mutant: a wildcard re-export yields no alias.
aliasesOf_None(filePath, nestedExports, k, list) == list

RECURSIVE aliasesOf(_, _, _, _)
\* nestedExports.forEach: an alias (filePath, targetSymbol.name) per target.
aliasesOf(filePath, nestedExports, k, list) ==
    IF k > Len(nestedExports) THEN list
    ELSE aliasesOf(filePath, nestedExports, k + 1,
                   Append(list,
                       ResolvedStaticSymbol(
                           getStaticSymbol(filePath, nestedExports[k].name, <<>>),
                           nestedExports[k])))

\* Mutant: the walker's list replaces the contents of the cache.
registerAll_Fresh(entries, list, i) == list

RECURSIVE registerAll(_, _, _)
\* resolvedSymbols.forEach(s => this.resolvedSymbols.set(s.symbol, s))
registerAll(entries, list, i) ==
    IF i > Len(list) THEN entries
    ELSE registerAll(mapSet(entries, list[i].symbol, list[i]), list, i + 1)

\* Mutant: every cached symbol is added, whatever its file.
addOwn_Unfiltered(symbols, resolvedSymbol, filePath) ==
    setAdd(symbols, resolvedSymbol.symbol)

\* if (resolvedSymbol.symbol.filePath === filePath) symbols.add(resolvedSymbol.symbol)
addOwn(symbols, resolvedSymbol, filePath) ==
    IF resolvedSymbol.symbol.filePath = filePath
    THEN setAdd(symbols, resolvedSymbol.symbol)
    ELSE symbols

\* Mutant: every cached symbol is collected, whatever its file.
ownSymbols_All(entries, filePath, i, symbols) ==
    setOf([k \in 1..Len(entries) |-> entries[k].symbol], 1, symbols)

RECURSIVE ownSymbols(_, _, _, _)
\* this.resolvedSymbols.forEach: the cached symbols declared in filePath.
ownSymbols(entries, filePath, i, symbols) ==
    IF i > Len(entries) THEN symbols
    ELSE ownSymbols(entries, filePath, i + 1, addOwn(symbols, entries[i], filePath))

RECURSIVE _createSymbolsOf(_, _)
RECURSIVE getSymbolsOf(_, _)
RECURSIVE moduleExports(_, _, _, _, _)

\* The aliases of one export * directive pushed, on to the next directive.
wildcardNext(filePath, exports, i, list, nestedExports) ==
    IF Threw(nestedExports.r) THEN [r |-> nestedExports.r, val |-> list]
    ELSE moduleExports(nestedExports.r, filePath, exports, i + 1,
                       aliasesOf(filePath, nestedExports.val, 1, list))

\* An export * directive: m is what resolveModule returned.
wildcardExport(filePath, exports, i, list, m) ==
    IF Threw(m.r) \/ ~Truthy(m.val)
    THEN moduleExports(m.r, filePath, exports, i + 1, list)
    ELSE wildcardNext(filePath, exports, i, list, getSymbolsOf(m.r, m.val.v))

explicitDone(filePath, exports, i, e) ==
    moduleExports(e.r, filePath, exports, i + 1, e.val)

\* for (const moduleExport of metadata['exports']).  Returns [r, val: the list].
moduleExports(r, filePath, exports, i, list) ==
    IF i > Len(exports) \/ Threw(r) THEN [r |-> r, val |-> list]
    ELSE IF Truthy(exports[i].export)
    THEN explicitDone(filePath, exports, i,
                      explicitExports(r, filePath, exports[i], 1, list))
    ELSE wildcardExport(filePath, exports, i, list,
                        resolveModule(r, exports[i].from, filePath))

\* Mutant: the direct declarations are left out.
directDeclarations_None(filePath, m) == [r |-> m.r, val |-> <<>>]

\* if (metadata['metadata']) ... : the direct declarations, on the local list.
directDeclarations(filePath, m) ==
    IF Threw(m.r) \/ ~Truthy(m.val.metadata) THEN [r |-> m.r, val |-> <<>>]
    ELSE declaredSymbols(m.r, filePath, m.val.metadata, 1, <<>>)

\* Mutant: the declarations are registered before the re-exports are processed.
reExports_Early(filePath, m, d) ==
    IF Threw(d.r) \/ ~Truthy(m.val.exports) THEN d
    ELSE moduleExports([d.r EXCEPT !.resolvedSymbols = registerAll(@, d.val, 1)],
                       filePath, m.val.exports.items, 1, d.val)

\* if (metadata['exports']) ... : the re-exports, after the declarations d.
reExports(filePath, m, d) ==
    IF Threw(d.r) \/ ~Truthy(m.val.exports) THEN d
    ELSE moduleExports(d.r, filePath, m.val.exports.items, 1, d.val)

\* Mutant: the local list is registered also when an error is in flight.
registerSymbols_Always(depth, e) ==
    [e.r EXCEPT !.resolvedSymbols = registerAll(@, e.val, 1),
                !.written = @ \o e.val, !.depth = depth]

\* The local list is registered only when the walk reached its end.
registerSymbols(depth, e) ==
    IF Threw(e.r) THEN [e.r EXCEPT !.depth = depth]
    ELSE [e.r EXCEPT !.resolvedSymbols = registerAll(@, e.val, 1),
                     !.written = @ \o e.val, !.depth = depth]

\* The walker's frame is left: by its return, or by the error in flight.
leaveWalker(filePath, r1) ==
    IF Threw(r1) THEN r1 ELSE [r1 EXCEPT !.finished = Append(@, filePath)]

\* The walk of the document m of filePath: declarations, then re-exports.
walkDocument(filePath, m) == reExports(filePath, m, directDeclarations(filePath, m))

\* The walker's frame is entered: filePath is marked before anything else.
enterWalker(r, filePath) ==
    [markResolved(r, filePath) EXCEPT !.entered = Append(@, filePath), !.depth = @ + 1]

\* Returns r.  r.depth counts the walker frames on the call stack.
_createSymbolsOf(r, filePath) ==
    IF Threw(r) THEN r
    ELSE IF r.depth >= MaxStack THEN Throw(r, RangeError)
    ELSE IF alreadyResolved(r, filePath) THEN r
    ELSE leaveWalker(filePath,
             registerSymbols(r.depth,
                 walkDocument(filePath,
                              getModuleMetadata(enterWalker(r, filePath), filePath))))

\* The symbols of filePath once its walker has run (r1).
collectSymbols(filePath, symbols, r1) ==
    IF Threw(r1) THEN [r |-> r1, val |-> Undefined]
    ELSE [r |-> r1, val |-> ownSymbols(r1.resolvedSymbols, filePath, 1, symbols)]

\* Returns [r, val: Array.from(symbols)].
getSymbolsOf(r, filePath) ==
    collectSymbols(filePath, setOf(summarySymbolsOf(filePath), 1, <<>>),
                   _createSymbolsOf(r, filePath))

-----------------------------------------------------------------------------
(* Top-level resolver and member projector *)

wrapSummary(staticSymbol, summary) ==
    IF Truthy(summary) THEN ResolvedStaticSymbol(staticSymbol, summary.metadata)
    ELSE Null

_resolveSymbolFromSummary(staticSymbol) ==
    wrapSummary(staticSymbol, resolveSummary(staticSymbol))

\* result = this.resolvedSymbols.get(staticSymbol), once the walker has run (r1).
lookupSymbol(staticSymbol, r1) ==
    IF Threw(r1) THEN [r |-> r1, val |-> Undefined]
    ELSE [r |-> r1, val |-> mapGet(r1.resolvedSymbols, staticSymbol)]

\* Mutant: the file is walked before the summary is returned.
summaryOrMetadata_WalkFirst(r, staticSymbol, result) ==
    IF Truthy(result)
    THEN [r |-> _createSymbolsOf(r, staticSymbol.filePath), val |-> result]
    ELSE lookupSymbol(staticSymbol, _createSymbolsOf(r, staticSymbol.filePath))

\* if (!result) { this._createSymbolsOf(...); result = this.resolvedSymbols.get(...) }
summaryOrMetadata(r, staticSymbol, result) ==
    IF Truthy(result) THEN [r |-> r, val |-> result]
    ELSE lookupSymbol(staticSymbol, _createSymbolsOf(r, staticSymbol.filePath))

\* resolveSymbol for a handle without members.  Returns [r, val].
resolveBase(r, staticSymbol) ==
    summaryOrMetadata(r, staticSymbol, _resolveSymbolFromSummary(staticSymbol))

\* Mutant: only the first member is followed.
walkMembers_OneStep(value, members, i) ==
    IF i > Len(members) \/ ~Truthy(value) THEN value ELSE Get(value, members[i])

RECURSIVE walkMembers(_, _, _)
\* for (let i = 0; i < members.length && value; i++) value = value[members[i]]
walkMembers(value, members, i) ==
    IF i > Len(members) \/ ~Truthy(value) THEN value
    ELSE walkMembers(Get(value, members[i]), members, i + 1)

\* Mutant: the statics are consulted for any member path but a single member.
hasStaticMember_NotOne(baseMetadata, members) ==
    Truthy(Get(baseMetadata, "statics")) /\ Len(members) # 1

\* Whether the class branch returns statics[members[0]].
hasStaticMember(baseMetadata, members) ==
    Truthy(Get(baseMetadata, "statics")) /\ Len(members) = 1

\* Mutant: an alias base is followed without the member path.
projectMembers_DropPath(staticSymbol, baseMetadata) ==
    IF IsStaticSymbol(baseMetadata)
    THEN ResolvedStaticSymbol(staticSymbol,
             getStaticSymbol(baseMetadata.filePath, baseMetadata.name, <<>>))
    ELSE IF Truthy(baseMetadata) /\ Get(baseMetadata, "__symbolic") = Str("class")
    THEN IF hasStaticMember(baseMetadata, staticSymbol.members)
         THEN ResolvedStaticSymbol(staticSymbol,
                  Get(Get(baseMetadata, "statics"), staticSymbol.members[1]))
         ELSE Null
    ELSE ResolvedStaticSymbol(staticSymbol,
             walkMembers(baseMetadata, staticSymbol.members, 1))

\* The projection of a resolved base through the member path.
projectMembers(staticSymbol, baseMetadata) ==
    IF IsStaticSymbol(baseMetadata)
    THEN ResolvedStaticSymbol(staticSymbol,
             getStaticSymbol(baseMetadata.filePath, baseMetadata.name,
                             staticSymbol.members))
    ELSE IF Truthy(baseMetadata) /\ Get(baseMetadata, "__symbolic") = Str("class")
    THEN IF hasStaticMember(baseMetadata, staticSymbol.members)
         THEN ResolvedStaticSymbol(staticSymbol,
                  Get(Get(baseMetadata, "statics"), staticSymbol.members[1]))
         ELSE Null
    ELSE ResolvedStaticSymbol(staticSymbol,
             walkMembers(baseMetadata, staticSymbol.members, 1))

\* The member projection once the base is resolved (base).
projectBase(staticSymbol, base) ==
    IF Threw(base.r) THEN base
    ELSE IF ~Truthy(base.val) THEN [r |-> base.r, val |-> Null]
    ELSE [r |-> base.r, val |-> projectMembers(staticSymbol, base.val.metadata)]

\* Returns [r, val].
_resolveSymbolMembers(r, staticSymbol) ==
    projectBase(staticSymbol,
                resolveBase(r, getStaticSymbol(staticSymbol.filePath, staticSymbol.name,
                                               <<>>)))

\* Returns [r, val].
resolveSymbol(r, staticSymbol) ==
    IF Len(staticSymbol.members) > 0 THEN _resolveSymbolMembers(r, staticSymbol)
    ELSE resolveBase(r, staticSymbol)

-----------------------------------------------------------------------------
(* Metadata documents the host may hold *)

Reference(module, name) ==
    Obj(<<"__symbolic", "module", "name">>, <<Str("reference"), Str(module), Str(name)>>)

LocalReference(name) == Obj(<<"__symbolic", "name">>, <<Str("reference"), Str(name)>>)

Function(parameters, value) ==
    Obj(<<"__symbolic", "parameters", "value">>,
        <<Str("function"), Arr(parameters), value>>)

Class(statics) == Obj(<<"__symbolic", "statics">>, <<Str("class"), statics>>)

Document(version, metadata, exports) ==
    [t |-> "module", version |-> version, metadata |-> metadata, exports |-> exports]

ExportFrom(from, names) == [t |-> "export", from |-> from, export |-> Arr(names)]

ExportAll(from) == [t |-> "export", from |-> from, export |-> Undefined]

Renamed(name, as) == Obj(<<"name", "as">>, <<Str(name), Str(as)>>)

\* Declarations only: a number and a class with statics.
LeafDocs ==
    <<Document(3, Obj(<<"x", "K">>,
                      <<Num(5), Class(Obj(<<"foo">>, <<Num(42)>>))>>),
               Undefined)>>

\* Declares y and re-exports x under the same name y, and K under its own.
AliasDocs ==
    <<Document(3, Obj(<<"y">>, <<Obj(<<"a">>, <<LocalReference("x")>>)>>),
               Arr(<<ExportFrom("./next", <<Renamed("x", "y"), Str("K")>>)>>))>>

\* Only a wildcard re-export of the next file.
StarDocs == <<Document(3, Obj(<<>>, <<>>), Arr(<<ExportAll("./next")>>))>>

\* A newer schema version; a declaration, an explicit re-export and then a
\* wildcard re-export of the previous file.
CycleDocs ==
    <<Document(99, Obj(<<"x">>, <<Num(7)>>),
               Arr(<<ExportFrom("./next", <<Renamed("x", "y")>>), ExportAll("./prev")>>))>>

\* References and re-exports of a module the host answers with null.
UnresolvedDocs ==
    <<Document(3, Obj(<<"x", "K">>,
                      <<Obj(<<"a", "b">>, <<Reference("./none", "q"), LocalReference("y")>>),
                        Obj(<<"__symbolic">>, <<Str("class")>>)>>),
               Arr(<<ExportFrom("./none", <<Str("x")>>),
                     ExportFrom("./next", <<Str("y")>>),
                     ExportAll("./none")>>))>>

\* A reference to a module for which the host throws.
ThrowingReferenceDocs ==
    <<Document(3, Obj(<<"x", "y">>,
                      <<Obj(<<"a", "b">>, <<Reference("./bad", "q"), LocalReference("y")>>),
                        Num(5)>>),
               Undefined)>>

\* A wildcard re-export of a module for which the host throws.
ThrowingExportDocs ==
    <<Document(3, Obj(<<"x">>, <<Num(5)>>),
               Arr(<<ExportAll("./bad"), ExportFrom("./next", <<Str("y")>>)>>))>>

\* Several candidates: the first of the highest version is selected.  It
\* re-exports itself and holds nested values and functions.
CandidateDocs ==
    <<Document(2, Obj(<<"x">>, <<Num(1)>>), Undefined),
      Document(3, Obj(<<"x", "y">>,
                      <<Obj(<<"foo">>, <<Obj(<<"bar">>, <<Num(2)>>)>>),
                        Obj(<<"f", "after">>,
                            <<Function(<<Str("p")>>, LocalReference("p")),
                              LocalReference("p")>>)>>),
               Arr(<<ExportAll("./self")>>)),
      Document(3, Obj(<<"x">>, <<Num(3)>>), Undefined)>>

\* A declaration, a wildcard re-export of the next file, and then an explicit
\* re-export under a name the wildcard yields too.
OverrideDocs ==
    <<Document(3, Obj(<<"y">>, <<Num(1)>>),
               Arr(<<ExportAll("./next"), ExportFrom("./next", <<Renamed("K", "x")>>)>>))>>

HostDocs ==
    {<<>>, LeafDocs, AliasDocs, StarDocs, CycleDocs, UnresolvedDocs,
     ThrowingReferenceDocs, ThrowingExportDocs, CandidateDocs, OverrideDocs}

\* What files B and C hold, together.
Dependencies ==
    {<<LeafDocs, LeafDocs>>, <<StarDocs, StarDocs>>, <<CycleDocs, StarDocs>>,
     <<StarDocs, LeafDocs>>}

Hosts == {h \in [Files -> HostDocs] : <<h["B"], h["C"]>> \in Dependencies}

Handles == {getStaticSymbol(f, n, m) : f \in Files, n \in Names, m \in MemberPaths}

-----------------------------------------------------------------------------
(* The resolver as a state machine *)

NoCall == [op |-> "none"]

NotRun == [t |-> "notrun"]

Init ==
    /\ metadataCache = [f \in Files |-> Undefined]
    /\ resolvedSymbols = <<>>
    /\ resolvedFilePaths = {}
    /\ recorded = <<>>
    /\ queried = <<>>
    /\ entered = <<>>
    /\ finished = <<>>
    /\ written = <<>>
    /\ host \in Hosts
    /\ hasRecorder \in BOOLEAN
    /\ last = NoCall
    /\ tnode = Undefined
    /\ tout = NotRun

\* The resolver's fields, no exception in flight, an empty call stack.
Resolver ==
    [metadataCache |-> metadataCache, resolvedSymbols |-> resolvedSymbols,
     resolvedFilePaths |-> resolvedFilePaths, recorded |-> recorded,
     queried |-> queried, entered |-> entered, finished |-> finished,
     written |-> written, thrown |-> NoError, depth |-> 0]

\* What a public call leaves behind, whether it returned or raised.
Leaves(r) ==
    /\ metadataCache' = r.metadataCache
    /\ resolvedSymbols' = r.resolvedSymbols
    /\ resolvedFilePaths' = r.resolvedFilePaths
    /\ recorded' = r.recorded
    /\ queried' = r.queried
    /\ entered' = r.entered
    /\ finished' = r.finished
    /\ written' = r.written
    /\ UNCHANGED <<host, hasRecorder, tnode, tout>>

\* The call ends: res.r is what it leaves, res.val what it returns.
Returns(op, arg, res) ==
    /\ Leaves(res.r)
    /\ last' = [op |-> op, arg |-> arg, thrown |-> res.r.thrown,
                result |-> IF Threw(res.r) THEN Undefined ELSE res.val]

ResolveSymbol(staticSymbol) ==
    Returns("resolveSymbol", staticSymbol, resolveSymbol(Resolver, staticSymbol))

GetSymbolsOf(filePath) ==
    Returns("getSymbolsOf", filePath, getSymbolsOf(Resolver, filePath))

Next ==
    \/ \E staticSymbol \in Handles : ResolveSymbol(staticSymbol)
    \/ \E filePath \in Files : GetSymbolsOf(filePath)

Spec == Init /\ [][Next]_vars

-----------------------------------------------------------------------------
(* The reference transformer on its own: createResolvedSymbol applied to raw
   metadata nodes of bounded nesting, for a symbol of file A *)

ParameterLists == {<<>>, <<Str("p")>>, <<Str("p"), Str("q")>>}

LeafNodes == {LocalReference("p"), LocalReference("q"), Reference("./next", "p")}

RECURSIVE RawNodes(_)
\* A leaf, a function around a node, or a node followed by a leaf as sibling.
RawNodes(depth) ==
    IF depth = 0 THEN LeafNodes
    ELSE RawNodes(depth - 1)
         \cup {Function(ps, k) : ps \in ParameterLists, k \in RawNodes(depth - 1)}
         \cup {Obj(<<"a", "b">>, <<k, leaf>>) : k \in RawNodes(depth - 1), leaf \in LeafNodes}

InitT ==
    /\ metadataCache = [f \in Files |-> Undefined]
    /\ resolvedSymbols = <<>>
    /\ resolvedFilePaths = {}
    /\ recorded = <<>>
    /\ queried = <<>>
    /\ entered = <<>>
    /\ finished = <<>>
    /\ written = <<>>
    /\ host = [f \in Files |-> <<>>]
    /\ hasRecorder = TRUE
    /\ last = NoCall
    /\ tnode \in RawNodes(MaxNest)
    /\ tout = NotRun

Transform ==
    /\ tout = NotRun
    /\ tout' = createResolvedSymbol(Resolver, getStaticSymbol("A", "x", <<>>), tnode).val.metadata
    /\ UNCHANGED <<metadataCache, resolvedSymbols, resolvedFilePaths, recorded, queried,
                   entered, finished, written, host, hasRecorder, last, tnode>>

NextT == Transform

SpecT == InitT /\ [][NextT]_vars

-----------------------------------------------------------------------------
(* Vocabulary of the properties *)

\* The document getModuleMetadata selects for a file.
DocumentOf(f) == selectModuleMetadata(f, maxVersionOf(host[f], 1, -1, Undefined))

\* The export directives of a file's document, in order.
DirectivesOf(f) ==
    IF Truthy(DocumentOf(f).exports) THEN DocumentOf(f).exports.items ELSE <<>>

\* The names a file's document declares.
DeclaredNames(f) ==
    IF Truthy(DocumentOf(f).metadata) THEN Range(DocumentOf(f).metadata.keys) ELSE {}

IsExplicit(directive) == Truthy(directive.export)

\* The pair (source-name, exported-alias) of an entry of an explicit directive:
\* a bare name stands for both.
SourceName(entry) == IF entry.t = "string" THEN entry.v ELSE Get(entry, "name").v

AliasName(entry) == IF entry.t = "string" THEN entry.v ELSE Get(entry, "as").v

\* The file a directive's specifier names, when the host resolves it.
Resolvable(directive, f) ==
    /\ ~moduleNameToFileName(directive.from, f).threw
    /\ Truthy(moduleNameToFileName(directive.from, f).val)

TargetOf(directive, f) == moduleNameToFileName(directive.from, f).val.v

Handle(f, n) == getStaticSymbol(f, n, <<>>)

CachedHandles == {resolvedSymbols[i].symbol : i \in 1..Len(resolvedSymbols)}

\* The last public call returned (it did not raise).
Returned(op) == last.op = op /\ last.thrown = NoError

\* The names of the symbols a wildcard re-export of file g can yield: those
\* the summaries know and those the cache holds for g.
ExportedNamesOf(g) ==
    {s.name : s \in {h \in Range(summarySymbolsOf(g)) \cup CachedHandles : h.filePath = g}}

\* Entry j of directive i of file f is the last export entry of f that can
\* yield the exported name a.
LastYielding(f, i, j, a) ==
    /\ \A k \in (j + 1)..Len(DirectivesOf(f)[i].export.items) :
           AliasName(DirectivesOf(f)[i].export.items[k]) # a
    /\ \A i2 \in (i + 1)..Len(DirectivesOf(f)) :
           LET d2 == DirectivesOf(f)[i2] IN
           Resolvable(d2, f) =>
               IF IsExplicit(d2)
               THEN \A k \in 1..Len(d2.export.items) : AliasName(d2.export.items[k]) # a
               ELSE a \notin ExportedNamesOf(TargetOf(d2, f))

-----------------------------------------------------------------------------
(* C1: explicit re-exports are aliases *)

\* What resolving handle h next, in the current state, returns.
ResolvedNext(h) == resolveSymbol(Resolver, h)

\* B declares s as a number and re-exports nothing.
DeclaresNumber(B, s) ==
    /\ s \in DeclaredNames(B)
    /\ Get(DocumentOf(B).metadata, s).t = "number"
    /\ DirectivesOf(B) = <<>>

\* Resolving the alias target (B, s) in turn: the summary's metadata when there
\* is one, the declared number when B declares s as a number and re-exports
\* nothing.
InTurn(B, s) ==
    (~Threw(ResolvedNext(Handle(B, s)).r) /\ Truthy(ResolvedNext(Handle(B, s)).val)) =>
        /\ ResolvedNext(Handle(B, s)).val.symbol = Handle(B, s)
        /\ Truthy(resolveSummary(Handle(B, s))) =>
               ResolvedNext(Handle(B, s)).val.metadata = resolveSummary(Handle(B, s)).metadata
        /\ (~Truthy(resolveSummary(Handle(B, s))) /\ DeclaresNumber(B, s)) =>
               ResolvedNext(Handle(B, s)).val.metadata = Get(DocumentOf(B).metadata, s)

\* The last call resolved (A, a), for which there is no summary, and returned.
ResolvedAlias(A, a) ==
    /\ Returned("resolveSymbol")
    /\ last.arg = Handle(A, a)
    /\ ~Truthy(resolveSummary(Handle(A, a)))

\* C1 as stated: for every explicit export directive of A whose specifier
\* resolves to B and every pair (s, a) in it, resolve(handle(A, a)) with no
\* summary for that handle returns a resolved symbol whose value is the
\* handle (B, s), and resolving that handle in turn yields B's metadata for s.
C1_EveryExplicitExportIsAlias ==
    \A A \in Files : \A i \in 1..Len(DirectivesOf(A)) :
        (IsExplicit(DirectivesOf(A)[i]) /\ Resolvable(DirectivesOf(A)[i], A)) =>
            \A j \in 1..Len(DirectivesOf(A)[i].export.items) :
                LET entry == DirectivesOf(A)[i].export.items[j] IN
                ResolvedAlias(A, AliasName(entry)) =>
                    /\ Truthy(last.result)
                    /\ last.result.metadata =
                           Handle(TargetOf(DirectivesOf(A)[i], A), SourceName(entry))
                    /\ InTurn(TargetOf(DirectivesOf(A)[i], A), SourceName(entry))

\* C1 amended: the same for the last export entry of A that yields the name
\* a, whenever resolve returns a resolved symbol at all (it returns absent
\* after A's walker was aborted by a raised error).
C1_LastExplicitExportIsAlias ==
    \A A \in Files : \A i \in 1..Len(DirectivesOf(A)) :
        (IsExplicit(DirectivesOf(A)[i]) /\ Resolvable(DirectivesOf(A)[i], A)) =>
            \A j \in 1..Len(DirectivesOf(A)[i].export.items) :
                LET entry == DirectivesOf(A)[i].export.items[j] IN
                (/\ ResolvedAlias(A, AliasName(entry))
                 /\ Truthy(last.result)
                 /\ LastYielding(A, i, j, AliasName(entry))) =>
                    /\ last.result.symbol = Handle(A, AliasName(entry))
                    /\ last.result.metadata =
                           Handle(TargetOf(DirectivesOf(A)[i], A), SourceName(entry))
                    /\ InTurn(TargetOf(DirectivesOf(A)[i], A), SourceName(entry))

\* A exports {x as y} from B, B declares x = 5: resolve(A, y) returned the
\* handle (B, x), and resolving (B, x) yields 5.
C1_Witness ==
    /\ host["A"] = AliasDocs
    /\ host["B"] = LeafDocs
    /\ ResolvedAlias("A", "y")
    /\ last.result.metadata = Handle("B", "x")
    /\ ResolvedNext(Handle("B", "x")).val.metadata = Num(5)

-----------------------------------------------------------------------------
(* C2: wildcard cycles terminate *)

\* How many times file f's walker body was entered.
TimesEntered(f) == Cardinality({i \in 1..Len(entered) : entered[i] = f})

\* C2: every call to symbolsOf or resolve terminates on any graph of wildcard
\* re-exports, cycles included: the walker body runs at most once per file in
\* the resolver's lifetime, so no call ever exhausts the call stack.
C2_WalkerRunsOncePerFile ==
    /\ \A f \in Files : TimesEntered(f) <= 1
    /\ last.op # "none" => last.thrown # RangeError

\* Whether the wildcard re-exports lead from file f back to f in n steps.
WildcardCycle(f, n) ==
    \E path \in [0..n -> Files] :
        /\ path[0] = f
        /\ path[n] = f
        /\ \A k \in 0..(n - 1) :
               \E i \in 1..Len(DirectivesOf(path[k])) :
                   /\ ~IsExplicit(DirectivesOf(path[k])[i])
                   /\ Resolvable(DirectivesOf(path[k])[i], path[k])
                   /\ TargetOf(DirectivesOf(path[k])[i], path[k]) = path[k + 1]

\* symbolsOf(A) returned on the cycle A -> B -> C -> A of wildcard re-exports,
\* every walker entered once.
C2_Witness ==
    /\ WildcardCycle("A", 3)
    /\ ~WildcardCycle("A", 1)
    /\ ~WildcardCycle("A", 2)
    /\ Returned("getSymbolsOf")
    /\ last.arg = "A"
    /\ entered = <<"A", "B", "C">>

-----------------------------------------------------------------------------
(* C3: what symbolsOf returns *)

\* C3: symbolsOf(f) returns exactly the handles the summaries report for f
\* together with the cached handles declared in f, each once.
C3_SymbolsOfIsUnion ==
    Returned("getSymbolsOf") =>
        /\ Range(last.result) =
               Range(summarySymbolsOf(last.arg))
                   \cup {h \in CachedHandles : h.filePath = last.arg}
        /\ Cardinality(Range(last.result)) = Len(last.result)

\* symbolsOf(C) returned a handle known to the summaries and to the cache, one
\* known only to the cache and one known only to the summaries, while the cache
\* also holds handles of other files.
C3_Witness ==
    /\ Returned("getSymbolsOf")
    /\ last.arg = "C"
    /\ \E h \in Range(last.result) : h \in CachedHandles /\ h \in Range(summarySymbolsOf("C"))
    /\ \E h \in Range(last.result) : h \in CachedHandles /\ h \notin Range(summarySymbolsOf("C"))
    /\ \E h \in Range(last.result) : h \notin CachedHandles
    /\ \E h \in CachedHandles : h.filePath # "C"

-----------------------------------------------------------------------------
(* What the reference transformer is specified to return *)

IsReferenceNode(node) == node.t = "map" /\ Get(node, "__symbolic") = Str("reference")

IsFunctionNode(node) == node.t = "map" /\ Get(node, "__symbolic") = Str("function")

\* The declared parameter names of a function node.
ParametersOf(node) ==
    IF Get(node, "parameters").t = "array" THEN Range(Get(node, "parameters").items)
    ELSE {}

\* Whether the host maps the specifier to a file, seen from file f.
ModuleResolves(module, f) ==
    /\ ~moduleNameToFileName(module, f).threw
    /\ Truthy(moduleNameToFileName(module, f).val)

ErrorMarkerFor(module, f) ==
    Obj(<<"__symbolic", "message">>,
        <<Str("error"),
          Str("Could not resolve " \o module \o " relative to " \o f \o ".")>>)

RECURSIVE Transformed(_, _, _)
\* The node rewritten for file f, scope being the parameters of the function
\* nodes that enclose it.
Transformed(node, f, scope) ==
    CASE node.t = "array" ->
            Arr([i \in 1..Len(node.items) |-> Transformed(node.items[i], f, scope)])
      [] IsReferenceNode(node) ->
            IF ~Truthy(Get(node, "name")) THEN Null
            ELSE IF Truthy(Get(node, "module"))
            THEN IF ModuleResolves(Get(node, "module").v, f)
                 THEN Handle(moduleNameToFileName(Get(node, "module").v, f).val.v,
                             Get(node, "name").v)
                 ELSE ErrorMarkerFor(Get(node, "module").v, f)
            ELSE IF Get(node, "name") \in scope
            THEN Obj(<<"__symbolic", "name">>, <<Str("reference"), Get(node, "name")>>)
            ELSE Handle(f, Get(node, "name").v)
      [] IsFunctionNode(node) ->
            Obj(node.keys,
                [i \in 1..Len(node.vals) |->
                    Transformed(node.vals[i], f, scope \cup ParametersOf(node))])
      [] node.t = "map" ->
            Obj(node.keys, [i \in 1..Len(node.vals) |-> Transformed(node.vals[i], f, scope)])
      [] OTHER -> node

RECURSIVE FailingReferences(_, _)
RECURSIVE FailingIn(_, _, _)
\* How many reference nodes of the node name a module the host cannot resolve.
FailingReferences(node, f) ==
    CASE node.t = "array" -> FailingIn(node.items, f, 1)
      [] IsReferenceNode(node) ->
            IF /\ Truthy(Get(node, "name"))
               /\ Truthy(Get(node, "module"))
               /\ ~ModuleResolves(Get(node, "module").v, f)
            THEN 1 ELSE 0
      [] node.t = "map" -> FailingIn(node.vals, f, 1)
      [] OTHER -> 0

FailingIn(nodes, f, i) ==
    IF i > Len(nodes) THEN 0
    ELSE FailingReferences(nodes[i], f) + FailingIn(nodes, f, i + 1)

\* The failing reference nodes of all declarations of file f.
FailingReferencesOf(f) ==
    IF Truthy(DocumentOf(f).metadata) THEN FailingIn(DocumentOf(f).metadata.vals, f, 1)
    ELSE 0

\* Whether some resolvable export directive of f yields the name n, which
\* then replaces a declaration of n.
Reexported(f, n) ==
    \E i \in 1..Len(DirectivesOf(f)) :
        LET d == DirectivesOf(f)[i] IN
        /\ Resolvable(d, f)
        /\ IF IsExplicit(d)
           THEN \E k \in 1..Len(d.export.items) : AliasName(d.export.items[k]) = n
           ELSE n \in ExportedNamesOf(TargetOf(d, f))

\* Every declared name of f is registered, and every alias of the resolvable
\* explicit directives of f.
Expanded(f) ==
    /\ \A n \in DeclaredNames(f) : Handle(f, n) \in CachedHandles
    /\ \A i \in 1..Len(DirectivesOf(f)) :
           (IsExplicit(DirectivesOf(f)[i]) /\ Resolvable(DirectivesOf(f)[i], f)) =>
               \A k \in 1..Len(DirectivesOf(f)[i].export.items) :
                   Handle(f, AliasName(DirectivesOf(f)[i].export.items[k])) \in CachedHandles

\* The version-mismatch reports and the module-resolution reports sent to the
\* sink for file f.
VersionReports(f) ==
    {i \in 1..Len(recorded) :
        /\ recorded[i].error.t = "Error"
        /\ "module" \in DOMAIN recorded[i].error
        /\ recorded[i].error.module = f}

ModuleReports(f) == {i \in 1..Len(recorded) : recorded[i].fileName = Str(f)}

-----------------------------------------------------------------------------
(* C4: an unresolvable export directive is skipped *)

\* C4: with a diagnostic sink, when the specifier of an export directive of f
\* cannot be resolved (the host returns no path or fails), the walker of f
\* still completes: nothing is registered for that directive, every declared
\* name and every alias of the other directives is.
C4_UnresolvedExportIsSkipped ==
    \A f \in resolvedFilePaths :
        (/\ hasRecorder
         /\ \E i \in 1..Len(DirectivesOf(f)) : ~Resolvable(DirectivesOf(f)[i], f)) =>
            /\ Expanded(f)
            /\ \A i \in 1..Len(DirectivesOf(f)) :
                   (IsExplicit(DirectivesOf(f)[i]) /\ ~Resolvable(DirectivesOf(f)[i], f)) =>
                       \A k \in 1..Len(DirectivesOf(f)[i].export.items) :
                           LET a == AliasName(DirectivesOf(f)[i].export.items[k]) IN
                           (a \notin DeclaredNames(f) /\ ~Reexported(f, a)) =>
                               Handle(f, a) \notin CachedHandles

-----------------------------------------------------------------------------
(* C5: an unresolvable reference becomes an error marker *)

\* C5: a reference node whose module cannot be resolved (the host returns no
\* path or fails) is replaced by an error marker naming the specifier and the
\* file, and nothing is aborted: its siblings are transformed and every
\* declaration of the file is registered.
C5_UnresolvedReferenceBecomesMarker ==
    \A f \in resolvedFilePaths :
        (/\ FailingReferencesOf(f) > 0
         /\ hasRecorder \/ DocumentOf(f).version = SUPPORTED_SCHEMA_VERSION) =>
            \A n \in DeclaredNames(f) :
                ~Reexported(f, n) =>
                    mapGet(resolvedSymbols, Handle(f, n)) =
                        ResolvedStaticSymbol(Handle(f, n),
                            Transformed(Get(DocumentOf(f).metadata, n), f, {}))

-----------------------------------------------------------------------------
(* C6: module-resolution failures reach the sink *)

\* C6: with a diagnostic sink, every module-resolution failure met while
\* transforming a reference node is reported to the sink, one report per
\* failing reference, and processing continues with the error marker.
C6_FailuresAreReported ==
    \A f \in resolvedFilePaths :
        (hasRecorder /\ FailingReferencesOf(f) > 0) =>
            /\ Cardinality(ModuleReports(f)) = FailingReferencesOf(f)
            /\ \A n \in DeclaredNames(f) : Handle(f, n) \in CachedHandles

-----------------------------------------------------------------------------
(* C7: a version mismatch is reported once and is not fatal *)

\* C7: with a diagnostic sink, a file whose selected document has another
\* version than the supported one still has all its declared symbols
\* registered and resolvable, and exactly one version-mismatch report is sent
\* for it.
C7_VersionMismatchReportedOnce ==
    \A f \in resolvedFilePaths :
        (hasRecorder /\ DocumentOf(f).version # SUPPORTED_SCHEMA_VERSION) =>
            /\ \A n \in DeclaredNames(f) :
                   /\ Handle(f, n) \in CachedHandles
                   /\ ~Threw(ResolvedNext(Handle(f, n)).r)
                   /\ Truthy(ResolvedNext(Handle(f, n)).val)
            /\ Cardinality(VersionReports(f)) = 1

-----------------------------------------------------------------------------
(* C8: function parameters are lexical, and only inside their function *)

\* C8: a reference node without module and with name n is left as a
\* lexical-reference marker if and only if n is a declared parameter of a
\* function node that encloses it, and is the handle (currentFile, n)
\* otherwise; the scope is restored when a function subtree is finished.
C8_ParametersAreLexical ==
    tout # NotRun => tout = Transformed(tnode, "A", {})

\* A reference to p inside a function with parameter p stayed a marker, and
\* the reference to p that follows the function became the handle (A, p).
C8_Witness ==
    /\ tnode = Obj(<<"a", "b">>,
                   <<Function(<<Str("p")>>, LocalReference("p")), LocalReference("p")>>)
    /\ tout # NotRun
    /\ Get(Get(tout, "a"), "value") = LocalReference("p")
    /\ Get(tout, "b") = Handle("A", "p")

-----------------------------------------------------------------------------
(* C9: a static member of a class *)

IsClassWithStatics(value) ==
    /\ value.t = "map"
    /\ Get(value, "__symbolic") = Str("class")
    /\ Get(value, "statics").t = "map"

\* The handle without the member path.
BaseOf(h) == Handle(h.filePath, h.name)

\* C9: for a handle with a one-element member path <<m>> whose base resolves
\* to a class with a statics mapping, resolve returns a resolved symbol for
\* that handle whose value is statics[m].
C9_StaticMember ==
    (/\ Returned("resolveSymbol")
     /\ Len(last.arg.members) = 1
     /\ ~Threw(ResolvedNext(BaseOf(last.arg)).r)
     /\ Truthy(ResolvedNext(BaseOf(last.arg)).val)
     /\ IsClassWithStatics(ResolvedNext(BaseOf(last.arg)).val.metadata)) =>
        /\ Truthy(last.result)
        /\ last.result.symbol = last.arg
        /\ last.result.metadata =
               Get(Get(ResolvedNext(BaseOf(last.arg)).val.metadata, "statics"),
                   last.arg.members[1])

\* resolve(handle(B, K, [foo])) returned 42 for K a class with statics {foo: 42}.
C9_Witness ==
    /\ Returned("resolveSymbol")
    /\ last.arg = getStaticSymbol("B", "K", <<"foo">>)
    /\ Get(DocumentOf("B").metadata, "K") = Class(Obj(<<"foo">>, <<Num(42)>>))
    /\ last.result.metadata = Num(42)

-----------------------------------------------------------------------------
(* C10: the summary fast path leaves the resolver alone *)

\* C10: when the summaries hold a resolution for a handle without members,
\* resolve returns the summary's metadata wrapped as the resolved symbol and
\* leaves the resolver unchanged: no document is asked of the host, no file is
\* marked visited, both caches keep their contents.
C10_SummaryFastPath ==
    [][(/\ last'.op = "resolveSymbol"
        /\ Len(last'.arg.members) = 0
        /\ Truthy(resolveSummary(last'.arg))) =>
           /\ last'.thrown = NoError
           /\ last'.result =
                  ResolvedStaticSymbol(last'.arg, resolveSummary(last'.arg).metadata)
           /\ UNCHANGED <<metadataCache, resolvedSymbols, resolvedFilePaths, queried,
                          entered, recorded>>]_vars

\* resolve(handle(C, x)) returned the summary's 9 with C not visited and not
\* loaded, although the host holds a document for C.
C10_Witness ==
    /\ Returned("resolveSymbol")
    /\ last.arg = Handle("C", "x")
    /\ last.result.metadata = Num(9)
    /\ "C" \notin resolvedFilePaths
    /\ metadataCache["C"] = Undefined
    /\ queried = <<>>
    /\ host["C"] # <<>>

-----------------------------------------------------------------------------
(* C11: the host is asked for a file's documents at most once *)

\* How many times host.getMetadataFor was called for file f.
TimesQueried(f) == Cardinality({i \in 1..Len(queried) : queried[i] = f})

\* Whether loading f's document ends without a raise: the version matches, or
\* the mismatch goes to the sink.
LoadCompletes(f) == hasRecorder \/ DocumentOf(f).version = SUPPORTED_SCHEMA_VERSION

-----------------------------------------------------------------------------
(* C12: an alias forwards the member path *)

\* What resolving the base of handle h, in the current state, returns.
BaseResolved(h) == ResolvedNext(BaseOf(h))

\* The base of h resolves, to a value that is itself a handle.
BaseIsAlias(h) ==
    /\ ~Threw(BaseResolved(h).r)
    /\ Truthy(BaseResolved(h).val)
    /\ BaseResolved(h).val.metadata.t = "symbol"

\* C12: a resolve of a handle (f, n, members) with members, whose base (f, n)
\* resolves to an alias (g, k), returns a resolved symbol for that handle whose
\* value is the handle (g, k, members), and does no more to the resolver than
\* resolving the base does: the target is neither resolved nor projected.
C12_AliasForwardsMembers ==
    [][(/\ last'.op = "resolveSymbol"
        /\ Len(last'.arg.members) > 0
        /\ BaseIsAlias(last'.arg)) =>
           /\ last'.thrown = NoError
           /\ last'.result.symbol = last'.arg
           /\ last'.result.metadata =
                  [t |-> "symbol",
                   filePath |-> BaseResolved(last'.arg).val.metadata.filePath,
                   name |-> BaseResolved(last'.arg).val.metadata.name,
                   members |-> last'.arg.members]
           /\ resolvedFilePaths' = BaseResolved(last'.arg).r.resolvedFilePaths
           /\ resolvedSymbols' = BaseResolved(last'.arg).r.resolvedSymbols
           /\ metadataCache' = BaseResolved(last'.arg).r.metadataCache
           /\ queried' = BaseResolved(last'.arg).r.queried]_vars

\* A re-exports K from B: resolve(handle(A, K, [foo])) returned the handle
\* (B, K, [foo]), and B, whose K has the static foo, was not visited.
C12_Witness ==
    /\ host["A"] = AliasDocs
    /\ host["B"] = LeafDocs
    /\ Returned("resolveSymbol")
    /\ last.arg = getStaticSymbol("A", "K", <<"foo">>)
    /\ last.result.metadata = getStaticSymbol("B", "K", <<"foo">>)
    /\ "B" \notin resolvedFilePaths
    /\ queried = <<"A">>

-----------------------------------------------------------------------------
(* C13: walking the member path into a plain value *)

RECURSIVE Walked(_, _)
\* The value reached by following the path into the value step by step,
\* stopping at the first step that yields no value.
Walked(value, path) ==
    IF path = <<>> \/ ~Truthy(value) THEN value
    ELSE Walked(Get(value, Head(path)), Tail(path))

IsClassKind(value) == Truthy(value) /\ Get(value, "__symbolic") = Str("class")

\* The last call resolved a handle with members whose base resolves to a value
\* that is not an alias and is not a class with statics projected through
\* exactly one member.
WalkedCase ==
    /\ Returned("resolveSymbol")
    /\ Len(last.arg.members) > 0
    /\ ~Threw(BaseResolved(last.arg).r)
    /\ Truthy(BaseResolved(last.arg).val)
    /\ BaseResolved(last.arg).val.metadata.t # "symbol"
    /\ ~(IsClassWithStatics(BaseResolved(last.arg).val.metadata) /\ Len(last.arg.members) = 1)

\* C13 as stated: in that case, a class-kind base with two or more members or
\* without statics included, resolve returns a resolved symbol whose value is
\* the member path walked into the base value, never an absent result.
C13_OtherBasesAreWalked ==
    WalkedCase =>
        /\ Truthy(last.result)
        /\ last.result.symbol = last.arg
        /\ last.result.metadata = Walked(BaseResolved(last.arg).val.metadata, last.arg.members)

\* C13 amended: the walk is made for a base that is not of class kind; for a
\* class-kind base without statics, or with a member path of other than one
\* element, resolve returns an absent result.
C13_NonClassBasesAreWalked ==
    WalkedCase =>
        IF IsClassKind(BaseResolved(last.arg).val.metadata)
        THEN last.result = Null
        ELSE /\ Truthy(last.result)
             /\ last.result.symbol = last.arg
             /\ last.result.metadata =
                    Walked(BaseResolved(last.arg).val.metadata, last.arg.members)

\* resolve(handle(A, x, [foo, bar])) returned 2 for x = {foo: {bar: 2}}.
C13_Witness ==
    /\ WalkedCase
    /\ last.arg = getStaticSymbol("A", "x", <<"foo", "bar">>)
    /\ Get(DocumentOf("A").metadata, "x") = Obj(<<"foo">>, <<Obj(<<"bar">>, <<Num(2)>>)>>)
    /\ last.result.metadata = Num(2)

-----------------------------------------------------------------------------
(* C14: what a re-entrant symbolsOf sees of the file being walked *)

\* The walker of g ran inside the walker of f.
WalkedInside(g, f) ==
    /\ IndexOf(entered, f) > 0
    /\ IndexOf(entered, f) < IndexOf(entered, g)
    /\ IndexOf(finished, g) > 0
    /\ IndexOf(finished, g) < IndexOf(finished, f)

\* The last directive of g is a wildcard re-export of f, f has a wildcard
\* re-export of g, and g was walked inside the walker of f: the symbolsOf(f)
\* of g's directive was re-entrant, and nothing of g comes after it.
ReEntered(f, g) ==
    /\ f # g
    /\ WalkedInside(g, f)
    /\ Len(DirectivesOf(g)) > 0
    /\ ~IsExplicit(DirectivesOf(g)[Len(DirectivesOf(g))])
    /\ Resolvable(DirectivesOf(g)[Len(DirectivesOf(g))], g)
    /\ TargetOf(DirectivesOf(g)[Len(DirectivesOf(g))], g) = f
    /\ \E i \in 1..Len(DirectivesOf(f)) :
           /\ ~IsExplicit(DirectivesOf(f)[i])
           /\ Resolvable(DirectivesOf(f)[i], f)
           /\ TargetOf(DirectivesOf(f)[i], f) = g

\* The cache holds the alias (g, n) pointing to (f, n).
AliasTo(g, f, n) ==
    mapGet(resolvedSymbols, Handle(g, n)) = ResolvedStaticSymbol(Handle(g, n), Handle(f, n))

\* C14 as stated: the declared symbols of f are registered before the wildcard
\* directives of f are processed, so the re-entrant symbolsOf(f) returns them
\* and g holds an alias (g, n) pointing to (f, n) for every declared n of f.
C14_DeclarationsSeenByReEntry ==
    \A f \in Files : \A g \in Files :
        ReEntered(f, g) => \A n \in DeclaredNames(f) : AliasTo(g, f, n)

\* C14 amended: the declared symbols of f are registered when the walker of f
\* ends, after its wildcard directives, so the re-entrant symbolsOf(f) returns
\* the summary-known handles of f only: g holds the alias (g, n) pointing to
\* (f, n) exactly for those, while f in the end has its declared names
\* registered.
C14_ReEntrySeesSummariesOnly ==
    \A f \in Files : \A g \in Files :
        ReEntered(f, g) =>
            /\ \A n \in Names : AliasTo(g, f, n) <=> Handle(f, n) \in Range(summarySymbolsOf(f))
            /\ \A n \in DeclaredNames(f) : Handle(f, n) \in CachedHandles

\* symbolsOf(B) returned, B declaring x and wildcard-exporting from A, A
\* wildcard-exporting from B: A's walker ran inside B's, B's x is registered
\* and A holds no alias x.
C14_Witness ==
    /\ Returned("getSymbolsOf")
    /\ last.arg = "B"
    /\ ReEntered("B", "A")
    /\ "x" \in DeclaredNames("B")
    /\ entered = <<"B", "A">>
    /\ finished = <<"A", "B">>
    /\ Handle("B", "x") \in CachedHandles
    /\ Handle("A", "x") \notin CachedHandles

-----------------------------------------------------------------------------
(* C15: what the visited mark of a file stands for *)

\* C15 as stated: between top-level calls, whether the previous call returned
\* or raised, every visited file is fully expanded: each name its document
\* declares and each alias of its resolvable export directives is a key of
\* the resolved-symbol cache.
C15_VisitedIsExpanded ==
    \A f \in resolvedFilePaths : Expanded(f)

\* C15 amended: the same for every visited file whose walker ran to its end;
\* a file whose walker was aborted by a raised error stays visited all the same.
C15_FinishedIsExpanded ==
    /\ Range(finished) \subseteq resolvedFilePaths
    /\ \A f \in Range(finished) : Expanded(f)

\* B, which declares a name and re-exports another, was walked to its end and
\* is expanded, while A's walker was aborted and A is visited too.
C15_Witness ==
    /\ "B" \in Range(finished)
    /\ DeclaredNames("B") # {}
    /\ \E i \in 1..Len(DirectivesOf("B")) :
           IsExplicit(DirectivesOf("B")[i]) /\ Resolvable(DirectivesOf("B")[i], "B")
    /\ Expanded("B")
    /\ "A" \in resolvedFilePaths
    /\ "A" \notin Range(finished)
    /\ last.op # "none"

-----------------------------------------------------------------------------
(* C16: how often a cache entry is written *)

\* How many times resolvedSymbols.set was called for handle h.
TimesWritten(h) == Cardinality({i \in 1..Len(written) : written[i].symbol = h})

WrittenHandles == {written[i].symbol : i \in 1..Len(written)}

\* What the last resolvedSymbols.set for handle h stored.
LastWritten(h) ==
    written[CHOOSE i \in 1..Len(written) :
                /\ written[i].symbol = h
                /\ \A j \in (i + 1)..Len(written) : written[j].symbol # h]

\* The entries (directive, position) of the resolvable explicit directives of f.
ExplicitEntries(f) ==
    UNION {{<<i, k>> : k \in 1..(IF /\ IsExplicit(DirectivesOf(f)[i])
                                     /\ Resolvable(DirectivesOf(f)[i], f)
                                  THEN Len(DirectivesOf(f)[i].export.items)
                                  ELSE 0)} :
           i \in 1..Len(DirectivesOf(f))}

\* How many declarations and explicit export entries of f yield the name n.
Yields(f, n) ==
    (IF n \in DeclaredNames(f) THEN 1 ELSE 0)
    + Cardinality({e \in ExplicitEntries(f) :
                      AliasName(DirectivesOf(f)[e[1]].export.items[e[2]]) = n})

HasWildcard(f) == \E i \in 1..Len(DirectivesOf(f)) : ~IsExplicit(DirectivesOf(f)[i])

\* C16 as stated: the cache entry of each handle without members is written at
\* most once in the resolver's lifetime, for every document shape.
C16_EntryWrittenOnce ==
    \A h \in WrittenHandles : TimesWritten(h) <= 1

\* C16 amended: the entry of a handle is written only within the one run of
\* the walker of its file, once for every declaration or export entry of the
\* file that yields its name (once if a single one does), and the value
\* written last is the one the cache keeps.
C16_EntryWrittenPerYield ==
    [][/\ \A h \in WrittenHandles : TimesWritten(h)' = TimesWritten(h)
       /\ \A h \in WrittenHandles' :
              /\ Len(h.members) = 0
              /\ h.filePath \in Range(finished')
              /\ mapGet(resolvedSymbols', h) = LastWritten(h)'
              /\ ~HasWildcard(h.filePath) => TimesWritten(h)' = Yields(h.filePath, h.name)]_vars

\* A declares y and re-exports x of B as y, and K: the entry (A, y) was written
\* twice and holds the alias, the entry (A, K) was written once.
C16_Witness ==
    /\ host["A"] = AliasDocs
    /\ TimesWritten(Handle("A", "y")) = 2
    /\ mapGet(resolvedSymbols, Handle("A", "y")).metadata = Handle("B", "x")
    /\ TimesWritten(Handle("A", "K")) = 1

-----------------------------------------------------------------------------
(* C17: a wildcard re-export aliases every symbol of its target *)

\* symbolsOf(g): the handles the summaries know and the cached handles of g.
SymbolsOf(g) == {h \in Range(summarySymbolsOf(g)) \cup CachedHandles : h.filePath = g}

NoCycleThrough(f) == \A n \in 1..Cardinality(Files) : ~WildcardCycle(f, n)

\* Directive i of f is a wildcard re-export the host resolves.
IsWildcardOf(f, i) ==
    /\ ~IsExplicit(DirectivesOf(f)[i])
    /\ Resolvable(DirectivesOf(f)[i], f)

\* A directive of f after directive i yields the exported name a.
YieldedLater(f, i, a) ==
    \E i2 \in (i + 1)..Len(DirectivesOf(f)) :
        /\ Resolvable(DirectivesOf(f)[i2], f)
        /\ IF IsExplicit(DirectivesOf(f)[i2])
           THEN \E k \in 1..Len(DirectivesOf(f)[i2].export.items) :
                    AliasName(DirectivesOf(f)[i2].export.items[k]) = a
           ELSE a \in ExportedNamesOf(TargetOf(DirectivesOf(f)[i2], f))

\* C17 as stated: for a wildcard directive of A resolving to B, no cycle
\* through A, after A's walker has run the cache holds for every handle s of
\* symbolsOf(B) an alias (A, s.name) whose value is s itself.
C17_WildcardAliasesAll ==
    \A f \in Range(finished) : \A i \in 1..Len(DirectivesOf(f)) :
        (IsWildcardOf(f, i) /\ NoCycleThrough(f)) =>
            \A s \in SymbolsOf(TargetOf(DirectivesOf(f)[i], f)) :
                mapGet(resolvedSymbols, Handle(f, s.name)) =
                    ResolvedStaticSymbol(Handle(f, s.name), s)

\* C17 amended: the same for every s whose name no later directive of A
\* yields; for the others (A, s.name) is a key all the same, holding what the
\* last yielding directive gave it.
C17_WildcardAliasesUnlessLater ==
    \A f \in Range(finished) : \A i \in 1..Len(DirectivesOf(f)) :
        (IsWildcardOf(f, i) /\ NoCycleThrough(f)) =>
            \A s \in SymbolsOf(TargetOf(DirectivesOf(f)[i], f)) :
                /\ Handle(f, s.name) \in CachedHandles
                /\ ~YieldedLater(f, i, s.name) =>
                       mapGet(resolvedSymbols, Handle(f, s.name)) =
                           ResolvedStaticSymbol(Handle(f, s.name), s)

\* The chain A *-from B *-from C with C declaring K: resolve(A, K) returned
\* the handle (B, K), resolve(B, K) yields the handle (C, K) and resolve(C, K)
\* yields the metadata of K.
C17_Witness ==
    /\ host["A"] = StarDocs /\ host["B"] = StarDocs /\ host["C"] = LeafDocs
    /\ NoCycleThrough("A")
    /\ Returned("resolveSymbol")
    /\ last.arg = Handle("A", "K")
    /\ last.result.metadata = Handle("B", "K")
    /\ ResolvedNext(Handle("B", "K")).val.metadata = Handle("C", "K")
    /\ ResolvedNext(Handle("C", "K")).val.metadata = Get(DocumentOf("C").metadata, "K")
    /\ Handle("A", "x") \in CachedHandles
    /\ Handle("A", "y") \in CachedHandles

-----------------------------------------------------------------------------
(* C18: the caches only grow, and settle *)

\* C18: no operation removes a file from the visited-files set, removes a
\* document from the metadata cache, or removes or changes an existing entry
\* of the resolved-symbol cache; resolving a handle with members adds no
\* entry for that handle.
C18_CachesOnlyGrow ==
    [][/\ resolvedFilePaths \subseteq resolvedFilePaths'
       /\ \A f \in Files :
              metadataCache[f] # Undefined => metadataCache'[f] = metadataCache[f]
       /\ \A h \in CachedHandles :
              mapGet(resolvedSymbols', h) = mapGet(resolvedSymbols, h)
       /\ (last'.op = "resolveSymbol" /\ Len(last'.arg.members) > 0) =>
              /\ ~mapHas(resolvedSymbols', last'.arg)
              /\ \A h \in CachedHandles' : Len(h.members) = 0]_vars

\* After other files had been visited and cached, resolve(handle(B, K, [foo]))
\* returned a value and the cache has no entry for that handle.
C18_Witness ==
    /\ Returned("resolveSymbol")
    /\ last.arg = getStaticSymbol("B", "K", <<"foo">>)
    /\ Truthy(last.result)
    /\ ~mapHas(resolvedSymbols, last.arg)
    /\ {"A", "B"} \subseteq resolvedFilePaths
    /\ metadataCache["A"] # Undefined
    /\ \E h \in CachedHandles : h.filePath = "A"
    /\ entered[1] = "A"

-----------------------------------------------------------------------------
(* C19: a failure inside a walker is sticky *)

\* The walker of f was entered and was aborted by a raised error.
Aborted(f) == f \in resolvedFilePaths /\ f \notin Range(finished)

\* A call that left r made no report and asked the host nothing.
Silent(r) ==
    /\ ~Threw(r)
    /\ r.recorded = recorded
    /\ r.queried = queried
    /\ r.entered = entered
    /\ r.resolvedSymbols = resolvedSymbols

\* C19: once the walker of f was aborted by a raised error, f stays visited
\* with none of its symbols registered; every later resolve(handle(f, n))
\* without a summary returns absent and every later symbolsOf(f) returns the
\* summary-known handles only, without raising, reporting or querying the host.
C19_FailureIsSticky ==
    \A f \in Files :
        Aborted(f) =>
            /\ \A h \in CachedHandles : h.filePath # f
            /\ \A n \in Names :
                   ~Truthy(resolveSummary(Handle(f, n))) =>
                       /\ Silent(ResolvedNext(Handle(f, n)).r)
                       /\ ResolvedNext(Handle(f, n)).val = Undefined
            /\ Silent(getSymbolsOf(Resolver, f).r)
            /\ Range(getSymbolsOf(Resolver, f).val) = Range(summarySymbolsOf(f))

\* Without a sink, A's walker was aborted by the version mismatch of A's
\* document; a later resolve(handle(A, x)), x being declared in A, returned
\* absent without raising, and the host was asked for A once.
C19_Witness ==
    /\ ~hasRecorder
    /\ DocumentOf("A").version # SUPPORTED_SCHEMA_VERSION
    /\ "x" \in DeclaredNames("A")
    /\ Aborted("A")
    /\ Returned("resolveSymbol")
    /\ last.arg = Handle("A", "x")
    /\ last.result = Undefined
    /\ TimesQueried("A") = 1

-----------------------------------------------------------------------------
(* C20: the answers do not depend on the earlier calls *)

\* A second resolver on the same host and summaries, on which no call was made.
Fresh ==
    [metadataCache |-> [f \in Files |-> Undefined], resolvedSymbols |-> <<>>,
     resolvedFilePaths |-> {}, recorded |-> <<>>, queried |-> <<>>, entered |-> <<>>,
     finished |-> <<>>, written |-> <<>>, thrown |-> NoError, depth |-> 0]

\* What the caller of resolve gets: the value returned, or the error raised.
ResolveAnswer(res) ==
    IF Threw(res.r) THEN [raised |-> res.r.thrown] ELSE [returned |-> res.val]

\* What the caller of symbolsOf gets: the set returned, or the error raised.
SymbolsAnswer(res) ==
    IF Threw(res.r) THEN [raised |-> res.r.thrown] ELSE [returned |-> Range(res.val)]

\* Every query is answered by this resolver as by the fresh one.
SameAnswers ==
    /\ \A h \in Handles :
           ResolveAnswer(resolveSymbol(Resolver, h)) = ResolveAnswer(resolveSymbol(Fresh, h))
    /\ \A f \in Files :
           SymbolsAnswer(getSymbolsOf(Resolver, f)) = SymbolsAnswer(getSymbolsOf(Fresh, f))

NoWildcardCycles == \A f \in Files : NoCycleThrough(f)

\* The host answers every module specifier of the documents without failing.
HostNeverFails ==
    \A f \in Files : host[f] \notin {ThrowingReferenceDocs, ThrowingExportDocs}

\* No version mismatch is raised: there is a sink, or every selected document
\* has the supported version.
NoMismatchRaised ==
    hasRecorder \/ \A f \in Files : DocumentOf(f).version = SUPPORTED_SCHEMA_VERSION

\* C20 as stated: without wildcard cycles and with a host that never fails,
\* what resolve(h) and symbolsOf(f) return does not depend on the calls made
\* earlier on the resolver.
C20_AnswersIndependentOfHistory ==
    (NoWildcardCycles /\ HostNeverFails) => SameAnswers

\* C20 amended: the same when, in addition, no call raises a version mismatch
\* (a sink is configured, or every document has the supported version).
C20_AnswersIndependentUnlessRaised ==
    (NoWildcardCycles /\ HostNeverFails /\ NoMismatchRaised) => SameAnswers

\* On the chain A *-from B *-from C, C was walked first, then B, then A by
\* symbolsOf(A), which returned what a fresh resolver returns for A.
C20_Witness ==
    /\ NoWildcardCycles /\ HostNeverFails /\ NoMismatchRaised
    /\ host["A"] = StarDocs /\ host["B"] = StarDocs /\ host["C"] = LeafDocs
    /\ entered = <<"C", "B", "A">>
    /\ Returned("getSymbolsOf")
    /\ last.arg = "A"
    /\ Range(last.result) = Range(getSymbolsOf(Fresh, "A").val)
    /\ Cardinality(Range(last.result)) = 3

=============================================================================
